---- MODULE Spec2Model ----
(***************************************************************************)
(* go-llama: a one-shot client of a chat-completion API.                   *)
(*                                                                         *)
(* Two versions of the program are modelled side by side, on the same      *)
(* environment:                                                            *)
(*   m : src/main.go          getGeneratedResponse returns (string, error) *)
(*                            and main aborts with log.Fatalf              *)
(*   p : src/unnamed/part_001 getGeneratedResponse aborts with log.Fatal   *)
(*                            and decodes the body with a json.Decoder     *)
(*                                                                         *)
(* A Go string is a sequence of symbols.  A symbol is either one special   *)
(* character (a double quote, a backslash, a newline, "<", or the invalid  *)
(* byte "xFF") or a chunk of plain text that JSON encoding leaves alone.   *)
(* An optional value (a nil pointer, a variable not yet assigned) is a     *)
(* sequence of length 0 or 1.                                              *)
(***************************************************************************)
EXTENDS Integers, Sequences, FiniteSets, TLC

VARIABLES env, prompt, m, p

vars == <<env, prompt, m, p>>

-----------------------------------------------------------------------------
(* Bounds *)

MaxBody == 2      \* items in a response body
MaxPrompt == 2    \* symbols in a prompt (specification SpecReq)

-----------------------------------------------------------------------------
(* Strings and their JSON encoding *)

DQ == "\""
BS == "\\"
NL == "\n"
LT == "<"
XFF == "xFF"      \* a byte that is not valid UTF-8

\* A string literal without special characters.
Str(s) == IF s = "" THEN <<>> ELSE <<s>>

\* encoding/json, string encoding of one symbol (HTML escaping is on by
\* default; invalid UTF-8 becomes U+FFFD).
escape(c) ==
  CASE c = DQ -> "\\\""
    [] c = BS -> "\\\\"
    [] c = NL -> "\\n"
    [] c = LT -> "\\u003c"
    [] c = XFF -> "\\ufffd"
    [] OTHER -> c

\* encoding/json, decoding of one symbol of a JSON string literal.
unescape(t) ==
  CASE t = "\\\"" -> DQ
    [] t = "\\\\" -> BS
    [] t = "\\n" -> NL
    [] t = "\\u003c" -> LT
    [] t = "\\ufffd" -> "uFFFD"
    [] OTHER -> t

\* A Go string as a JSON string literal.
Quote(s) == <<DQ>> \o [i \in 1..Len(s) |-> escape(s[i])] \o <<DQ>>

\* A JSON string literal as a Go string.
Unquote(lit) == [i \in 1..(Len(lit) - 2) |-> unescape(lit[i + 1])]

-----------------------------------------------------------------------------
(* The request *)

API_URL == Str("https://api.llama-api.com/chat/completions")

StatusOK == 200

createChatRequest_roleSystem(pr) ==
  [ Model |-> Str("llama3-70b"),
    Messages |-> << [Role |-> Str("system"), Content |-> pr] >>,
    Functions |-> <<
      [ Name |-> Str("Get_English_Exmple_Sentence"),
        Description |-> Str("Get the English example sentence generated with given words."),
        Parameters |->
          [ Type |-> Str("object"),
            Properties |->
              [ Words |->
                  [ Type |-> Str("string"),
                    Description |-> Str("English vocabulary list, e.g. nonchalant, reckon, appalled") ] ] ],
        Required |-> << Str("words") >> ] >>,
    Stream |-> FALSE,
    FunctionCall |-> Str("none") ]

\* createChatRequest; the same text in both versions.
createChatRequest(pr) ==
  [ Model |-> Str("llama3-70b"),
    Messages |-> << [Role |-> Str("user"), Content |-> pr] >>,
    Functions |-> <<
      [ Name |-> Str("Get_English_Exmple_Sentence"),
        Description |-> Str("Get the English example sentence generated with given words."),
        Parameters |->
          [ Type |-> Str("object"),
            Properties |->
              [ Words |->
                  [ Type |-> Str("string"),
                    Description |-> Str("English vocabulary list, e.g. nonchalant, reckon, appalled") ] ] ],
        Required |-> << Str("words") >> ] >>,
    Stream |-> FALSE,
    FunctionCall |-> Str("none") ]

\* json.Marshal of the struct types: an object is the sequence of its
\* <<key, value>> pairs in the order of the struct's fields, under the names
\* of the json tags.
MarshalMessage(x) ==
  << <<"role", Quote(x.Role)>>, <<"content", Quote(x.Content)>> >>

MarshalFunction(f) ==
  << <<"name", Quote(f.Name)>>,
     <<"description", Quote(f.Description)>>,
     <<"parameters",
       << <<"type", Quote(f.Parameters.Type)>>,
          <<"properties",
            << <<"words",
                 << <<"type", Quote(f.Parameters.Properties.Words.Type)>>,
                    <<"description", Quote(f.Parameters.Properties.Words.Description)>> >> >> >> >> >> >>,
     <<"required", [i \in 1..Len(f.Required) |-> Quote(f.Required[i])]>> >>

Marshal(r) ==
  << <<"model", Quote(r.Model)>>,
     <<"messages", [i \in 1..Len(r.Messages) |-> MarshalMessage(r.Messages[i])]>>,
     <<"functions", [i \in 1..Len(r.Functions) |-> MarshalFunction(r.Functions[i])]>>,
     <<"stream", r.Stream>>,
     <<"function_call", Quote(r.FunctionCall)>> >>

-----------------------------------------------------------------------------
(* The response body on the wire *)

\* A body is a sequence of items: white space, bytes that are not JSON
\* ("junk"), or one complete JSON value: the literal null, an object without
\* a "choices" key, an object with "choices": null, or an object whose
\* "choices" is an array.
Item(k, cs) == [kind |-> k, choices |-> cs]

WireChoice1 ==
  [ index |-> 0, role |-> Quote(Str("assistant")),
    content |-> <<DQ, "Reckon", "\\n", "so", DQ>>,
    finish_reason |-> Quote(Str("stop")) ]

WireChoice2 ==
  [ index |-> 1, role |-> Quote(Str("assistant")),
    content |-> <<DQ, "Appalled", DQ>>,
    finish_reason |-> Quote(Str("length")) ]

ChoiceLists == { <<>>, <<WireChoice1>>, <<WireChoice1, WireChoice2>> }

BodyItems ==
  { Item("ws", <<>>), Item("junk", <<>>), Item("null", <<>>),
    Item("object_absent", <<>>), Item("object_null", <<>>) }
  \cup { Item("object", cs) : cs \in ChoiceLists }

Bodies == UNION { [1..n -> BodyItems] : n \in 0..MaxBody }

isSpace(it) == it.kind = "ws"

isValue(it) == it.kind \in {"null", "object_absent", "object_null", "object"}

\* Index of the first item that is not white space, Len + 1 when none.
firstNonSpace(data) ==
  IF \E i \in 1..Len(data) : ~isSpace(data[i])
  THEN CHOOSE i \in 1..Len(data) :
         ~isSpace(data[i]) /\ \A j \in 1..(i - 1) : isSpace(data[j])
  ELSE Len(data) + 1

\* struct choice filled from one element of the "choices" array; the keys
\* the element lacks keep their zero values.
decodeChoice(w) ==
  [ Index |-> w.index,
    Message |->
      [ Role |-> Unquote(w.role),
        Content |-> Unquote(w.content),
        FunctionCall |-> [Name |-> <<>>, Arguments |-> [Words |-> <<>>]] ],
    FinishReason |-> Unquote(w.finish_reason) ]

\* An empty chatResponse filled from one JSON value: null and a missing or
\* null "choices" leave Choices nil.
decodeValue(it) ==
  [ Choices |->
      IF it.kind = "object"
      THEN [i \in 1..Len(it.choices) |-> decodeChoice(it.choices[i])]
      ELSE <<>> ]

NoErr == 0 - 1

\* What the reader of the body hands out before it fails (readErrAt items)
\* or reaches the end (NoErr).
delivered(r) ==
  IF r.readErrAt = NoErr THEN r.Body ELSE SubSeq(r.Body, 1, r.readErrAt)

ReadAll_ignoreErr(r) == [err |-> <<>>, data |-> delivered(r)]

\* io.ReadAll(res.Body)
ReadAll(r) ==
  IF r.readErrAt = NoErr
  THEN [err |-> <<>>, data |-> r.Body]
  ELSE [err |-> <<"read error">>, data |-> delivered(r)]

\* json.Unmarshal(body, chatRes): the input must be exactly one JSON value
\* with nothing but white space around it.
Unmarshal(data) ==
  LET i == firstNonSpace(data) IN
  IF i > Len(data)
  THEN [err |-> <<"unexpected end of JSON input">>, chatRes |-> [Choices |-> <<>>]]
  ELSE IF ~isValue(data[i])
  THEN [err |-> <<"json: syntax error">>, chatRes |-> [Choices |-> <<>>]]
  ELSE IF \E j \in (i + 1)..Len(data) : ~isSpace(data[j])
  THEN [err |-> <<"json: invalid character after top-level value">>,
        chatRes |-> [Choices |-> <<>>]]
  ELSE [err |-> <<>>, chatRes |-> decodeValue(data[i])]

Decode_noLeadingSpace(r) ==
  LET d == delivered(r) IN
  IF Len(d) = 0 \/ ~isValue(d[1])
  THEN [err |-> <<"json: syntax error">>, chatRes |-> [Choices |-> <<>>]]
  ELSE [err |-> <<>>, chatRes |-> decodeValue(d[1])]

\* json.NewDecoder(res.Body).Decode(chatRes): reads up to the end of the first
\* JSON value of the stream and decodes that value; what follows it is never
\* looked at.  An object ends at its closing brace; the literal null ends at
\* the next byte or at the end of the stream, so a read error right after it
\* is reported.
Decode(r) ==
  LET d == delivered(r)
      i == firstNonSpace(d)
  IN
  IF i > Len(d)
  THEN [err |-> IF r.readErrAt = NoErr THEN <<"EOF">> ELSE <<"read error">>,
        chatRes |-> [Choices |-> <<>>]]
  ELSE IF ~isValue(d[i])
  THEN [err |-> <<"json: syntax error">>, chatRes |-> [Choices |-> <<>>]]
  ELSE IF d[i].kind = "null" /\ i = Len(d) /\ r.readErrAt # NoErr
  THEN [err |-> <<"read error">>, chatRes |-> [Choices |-> <<>>]]
  ELSE [err |-> <<>>, chatRes |-> decodeValue(d[i])]

-----------------------------------------------------------------------------
(* The checks of getGeneratedResponse *)

apiKeyMissing_never(apiKey) == FALSE

\* apiKey == ""
apiKeyMissing(apiKey) == apiKey = <<>>

statusNotOK_only5xx(code) == code >= 500

\* res.StatusCode != http.StatusOK
statusNotOK(code) == code # StatusOK

\* len(chatRes.Choices) == 0
noChoices(chatRes) == Len(chatRes.Choices) = 0

firstChoiceContent_last(chatRes) ==
  chatRes.Choices[Len(chatRes.Choices)].Message.Content

\* chatRes.Choices[0].Message.Content
firstChoiceContent(chatRes) == chatRes.Choices[1].Message.Content

-----------------------------------------------------------------------------
(* The environment and the state of one run *)

Statuses == {200, 201, 500}

Responses ==
  UNION { { [StatusCode |-> c, Body |-> b, readErrAt |-> k] :
              c \in Statuses, k \in NoErr..Len(b) } : b \in Bodies }

\* What the run meets: whether json.Marshal and http.NewRequestWithContext
\* report an error (the code checks both results), the value of
\* LLAMA_API_KEY, and what client.Do yields: no response (a network error)
\* or one response.
Envs ==
  [ marshalFails : BOOLEAN, newRequestFails : BOOLEAN,
    apiKey : {Str(""), Str("sk-key")},
    res : { <<>> } \cup { <<r>> : r \in Responses } ]

\* main: words and the prompt made of them by fmt.Sprintf.
words == <<"nonchalant", "reckon", "appalled">>

mainPrompt ==
  << "Please create an English example sentence using following words: ",
     words[1], ", ", words[2], ", ", words[3] >>

\* main: what is printed before getGeneratedResponse is called.
headerLines(pr) ==
  << Str(""), Str(""), Str("++++++ Prompt ++++++"), pr, Str(""), Str(""),
     Str("++++++ Generated response ++++++") >>

\* The state of a run before main starts.  sent is the sequence of requests
\* handed to client.Do; deferred says res.Body.Close() is registered with
\* defer, closed that it ran.
InitRun ==
  [ pc |-> "main", stdout |-> <<>>, log |-> <<>>,
    chatReq |-> <<>>, jsonData |-> <<>>, req |-> <<>>, sent |-> <<>>,
    res |-> <<>>, deferred |-> FALSE, closed |-> FALSE,
    bodyRead |-> FALSE, body |-> <<>>, decoded |-> FALSE, chatRes |-> <<>>,
    ret |-> <<>>, exit |-> NoErr ]

\* http.NewRequestWithContext(ctx, "POST", API_URL, bytes.NewReader(jsonData))
NewRequest(jsonData) ==
  [Method |-> "POST", URL |-> API_URL, Body |-> jsonData, Header |-> {}]

\* The two req.Header.Set calls.
SetHeaders(req, apiKey) ==
  [req EXCEPT !.Header =
     { <<"Content-Type", Str("application/json")>>,
       <<"Authorization", Str("Bearer ") \o apiKey>> }]

\* main.go: log.Printf(msg) and return "", err.  The deferred Close, once
\* registered, runs on the way out.
ReturnErr(s, msg, e) ==
  [s EXCEPT !.pc = "returned", !.log = Append(@, msg),
            !.ret = << [text |-> <<>>, err |-> <<e>>] >>,
            !.closed = s.deferred]

\* part_001: log.Fatal / log.Fatalf: the message is logged and os.Exit(1)
\* ends the process; deferred calls do not run.
Fatal(s, msg) ==
  [s EXCEPT !.pc = "exited", !.log = Append(@, msg), !.exit = 1]

-----------------------------------------------------------------------------
(* src/main.go *)

M_main ==
  /\ m.pc = "main"
  /\ m' = [m EXCEPT !.pc = "marshal", !.stdout = headerLines(prompt)]
  /\ UNCHANGED <<env, prompt, p>>

M_Marshal ==
  /\ m.pc = "marshal"
  /\ LET s == [m EXCEPT !.chatReq = <<createChatRequest(prompt)>>] IN
     m' = IF env.marshalFails
          THEN ReturnErr(s, "Failed to Marshal", "json: unsupported value")
          ELSE [s EXCEPT !.jsonData = <<Marshal(s.chatReq[1])>>, !.pc = "newRequest"]
  /\ UNCHANGED <<env, prompt, p>>

M_NewRequest ==
  /\ m.pc = "newRequest"
  /\ m' = IF env.newRequestFails
          THEN ReturnErr(m, "Failed to create http request struct", "net/http: invalid request")
          ELSE [m EXCEPT !.req = <<NewRequest(m.jsonData[1])>>,
                         !.pc = "getenv"]
  /\ UNCHANGED <<env, prompt, p>>

M_Getenv ==
  /\ m.pc = "getenv"
  /\ m' = IF apiKeyMissing(env.apiKey)
          THEN ReturnErr(m, "Failed to get API KEY",
                         "LLAMA_API_KEY environment variable is not set")
          ELSE [m EXCEPT !.req = <<SetHeaders(m.req[1], env.apiKey)>>,
                         !.pc = "do"]
  /\ UNCHANGED <<env, prompt, p>>

M_Do_retry ==
  /\ m.pc = "do"
  /\ LET s == [m EXCEPT !.sent = @ \o m.req] IN
     m' = IF env.res = <<>>
          THEN IF Len(s.sent) < 2
               THEN s
               ELSE ReturnErr(s, "Failed to get http response", "network error")
          ELSE [s EXCEPT !.res = env.res, !.pc = "status"]
  /\ UNCHANGED <<env, prompt, p>>

M_Do ==
  /\ m.pc = "do"
  /\ LET s == [m EXCEPT !.sent = @ \o m.req] IN
     m' = IF env.res = <<>>
          THEN ReturnErr(s, "Failed to get http response", "network error")
          ELSE [s EXCEPT !.res = env.res, !.pc = "status"]
  /\ UNCHANGED <<env, prompt, p>>

M_CheckStatus ==
  /\ m.pc = "status"
  /\ m' = IF statusNotOK(m.res[1].StatusCode)
          THEN ReturnErr(m, "Failed to get expected status code", "Unexpected status code")
          ELSE [m EXCEPT !.pc = "read"]
  /\ UNCHANGED <<env, prompt, p>>

M_ReadAll ==
  /\ m.pc = "read"
  /\ LET s == [m EXCEPT !.deferred = TRUE, !.bodyRead = TRUE]
         r == ReadAll(m.res[1])
     IN
     m' = IF r.err # <<>>
          THEN ReturnErr(s, "Failed to read body", r.err[1])
          ELSE [s EXCEPT !.body = <<r.data>>, !.pc = "unmarshal"]
  /\ UNCHANGED <<env, prompt, p>>

M_Unmarshal ==
  /\ m.pc = "unmarshal"
  /\ LET s == [m EXCEPT !.decoded = TRUE]
         r == Unmarshal(m.body[1])
     IN
     m' = IF r.err # <<>>
          THEN ReturnErr(s, "Failed to unmarshal", r.err[1])
          ELSE [s EXCEPT !.chatRes = <<r.chatRes>>, !.pc = "choices"]
  /\ UNCHANGED <<env, prompt, p>>

M_Choices_noCheck ==
  /\ m.pc = "choices"
  /\ m' = [m EXCEPT !.pc = "returned",
                    !.ret = << [text |-> IF noChoices(m.chatRes[1]) THEN <<>>
                                         ELSE firstChoiceContent(m.chatRes[1]),
                                err |-> <<>>] >>,
                    !.closed = m.deferred]
  /\ UNCHANGED <<env, prompt, p>>

M_Choices ==
  /\ m.pc = "choices"
  /\ m' = IF noChoices(m.chatRes[1])
          THEN ReturnErr(m, "Failed to get expected length of choices",
                         "No choices returned from llama")
          ELSE [m EXCEPT !.pc = "returned",
                         !.ret = << [text |-> firstChoiceContent(m.chatRes[1]), err |-> <<>>] >>,
                         !.closed = m.deferred]
  /\ UNCHANGED <<env, prompt, p>>

M_main_finish_ignoreErr ==
  /\ m.pc = "returned"
  /\ m' = [m EXCEPT !.pc = "exited", !.exit = 0,
                    !.stdout = @ \o <<m.ret[1].text, Str(""), Str("")>>]
  /\ UNCHANGED <<env, prompt, p>>

M_main_finish ==
  /\ m.pc = "returned"
  /\ m' = IF m.ret[1].err # <<>>
          THEN [m EXCEPT !.pc = "exited", !.exit = 1,
                         !.log = Append(@, "Failed to get generated response from Llama API")]
          ELSE [m EXCEPT !.pc = "exited", !.exit = 0,
                         !.stdout = @ \o <<m.ret[1].text, Str(""), Str("")>>]
  /\ UNCHANGED <<env, prompt, p>>

-----------------------------------------------------------------------------
(* src/unnamed/part_001 *)

P_main ==
  /\ p.pc = "main"
  /\ p' = [p EXCEPT !.pc = "marshal", !.stdout = headerLines(prompt)]
  /\ UNCHANGED <<env, prompt, m>>

P_Marshal ==
  /\ p.pc = "marshal"
  /\ LET s == [p EXCEPT !.chatReq = <<createChatRequest(prompt)>>] IN
     p' = IF env.marshalFails
          THEN Fatal(s, "Failed to marshal json")
          ELSE [s EXCEPT !.jsonData = <<Marshal(s.chatReq[1])>>, !.pc = "newRequest"]
  /\ UNCHANGED <<env, prompt, m>>

P_NewRequest ==
  /\ p.pc = "newRequest"
  /\ p' = IF env.newRequestFails
          THEN Fatal(p, "Failed to create http request struct")
          ELSE [p EXCEPT !.req = <<NewRequest(p.jsonData[1])>>, !.pc = "getenv"]
  /\ UNCHANGED <<env, prompt, m>>

P_Getenv ==
  /\ p.pc = "getenv"
  /\ p' = IF apiKeyMissing(env.apiKey)
          THEN Fatal(p, "LLAMA_API_KEY environment variable is not set")
          ELSE [p EXCEPT !.req = <<SetHeaders(p.req[1], env.apiKey)>>, !.pc = "do"]
  /\ UNCHANGED <<env, prompt, m>>

P_Do ==
  /\ p.pc = "do"
  /\ LET s == [p EXCEPT !.sent = @ \o p.req] IN
     p' = IF env.res = <<>>
          THEN Fatal(s, "Failed to get http response")
          ELSE [s EXCEPT !.res = env.res, !.pc = "status"]
  /\ UNCHANGED <<env, prompt, m>>

P_CheckStatus ==
  /\ p.pc = "status"
  /\ p' = IF statusNotOK(p.res[1].StatusCode)
          THEN Fatal(p, "Unexpected status code")
          ELSE [p EXCEPT !.pc = "decode"]
  /\ UNCHANGED <<env, prompt, m>>

P_Decode ==
  /\ p.pc = "decode"
  /\ LET s == [p EXCEPT !.deferred = TRUE, !.bodyRead = TRUE, !.decoded = TRUE]
         r == Decode(p.res[1])
     IN
     p' = IF r.err # <<>>
          THEN Fatal(s, "Failed to decode")
          ELSE [s EXCEPT !.chatRes = <<r.chatRes>>, !.pc = "choices"]
  /\ UNCHANGED <<env, prompt, m>>

P_Choices ==
  /\ p.pc = "choices"
  /\ p' = IF noChoices(p.chatRes[1])
          THEN Fatal(p, "No choices returned from llama")
          ELSE [p EXCEPT !.pc = "returned",
                         !.ret = << [text |-> firstChoiceContent(p.chatRes[1]), err |-> <<>>] >>,
                         !.closed = p.deferred]
  /\ UNCHANGED <<env, prompt, m>>

P_main_finish ==
  /\ p.pc = "returned"
  /\ p' = [p EXCEPT !.pc = "exited", !.exit = 0,
                    !.stdout = @ \o <<p.ret[1].text, Str(""), Str("")>>]
  /\ UNCHANGED <<env, prompt, m>>

-----------------------------------------------------------------------------
(* Specifications *)

\* Both versions run main's fixed prompt in every environment.
Init ==
  /\ env \in Envs
  /\ prompt = mainPrompt
  /\ m = InitRun
  /\ p = InitRun

Next ==
  \/ M_main \/ M_Marshal \/ M_NewRequest \/ M_Getenv \/ M_Do
  \/ M_CheckStatus \/ M_ReadAll \/ M_Unmarshal \/ M_Choices \/ M_main_finish
  \/ P_main \/ P_Marshal \/ P_NewRequest \/ P_Getenv \/ P_Do
  \/ P_CheckStatus \/ P_Decode \/ P_Choices \/ P_main_finish

Spec == Init /\ [][Next]_vars

\* getGeneratedResponse and createChatRequest on every prompt over a small
\* alphabet, in a few environments.
PromptSymbols == {"a", DQ, BS, NL, LT, XFF}

Prompts == UNION { [1..n -> PromptSymbols] : n \in 0..MaxPrompt }

GoodResponse ==
  [ StatusCode |-> StatusOK, Body |-> <<Item("object", <<WireChoice1>>)>>,
    readErrAt |-> NoErr ]

EnvSamples ==
  [ marshalFails : {FALSE}, newRequestFails : {FALSE},
    apiKey : {Str(""), Str("sk-key")},
    res : { <<>>, <<GoodResponse>>, <<[GoodResponse EXCEPT !.StatusCode = 500]>> } ]

InitReq ==
  /\ env \in EnvSamples
  /\ prompt \in Prompts
  /\ m = InitRun
  /\ p = InitRun

SpecReq == InitReq /\ [][Next]_vars

-----------------------------------------------------------------------------
(* Properties *)

Finished(s) == s.pc \in {"returned", "exited"}

\* The run ended, or is about to end, in failure.
Failed(s) ==
  /\ s.pc = "returned" => s.ret[1].err # <<>>
  /\ s.pc = "exited" => s.exit = 1

\* Standard output holds the header lines and nothing else.
NoTextPrinted(s) == s.stdout = headerLines(prompt)

LibsFine == ~env.marshalFails /\ ~env.newRequestFails

\* The first JSON value of a response's body.
firstValue(r) == r.Body[firstNonSpace(r.Body)]

\* C1: with LLAMA_API_KEY unset or empty, no request is ever handed to
\* client.Do, and a run that has ended has failed.
C1_NoKeyNoRequest ==
  env.apiKey = <<>> =>
    /\ Len(m.sent) = 0 /\ Len(p.sent) = 0
    /\ m.res = <<>> /\ p.res = <<>>
    /\ Finished(m) => Failed(m)
    /\ Finished(p) => (p.pc = "exited" /\ p.exit = 1)

C1_Witness ==
  /\ env.apiKey = <<>> /\ LibsFine /\ env.res # <<>>
  /\ m.pc = "exited" /\ m.log[1] = "Failed to get API KEY"
  /\ p.pc = "exited" /\ p.log[1] = "LLAMA_API_KEY environment variable is not set"

\* C2: after a response whose status is not 200, the run fails and the body
\* is neither read nor deserialized, whatever the status and the body.
C2_Non200BodyUntouched ==
  /\ (m.res # <<>> /\ m.res[1].StatusCode # 200) =>
       /\ ~m.bodyRead /\ ~m.decoded /\ m.body = <<>> /\ m.chatRes = <<>>
       /\ Finished(m) => Failed(m)
  /\ (p.res # <<>> /\ p.res[1].StatusCode # 200) =>
       /\ ~p.bodyRead /\ ~p.decoded /\ p.chatRes = <<>>
       /\ Finished(p) => (p.pc = "exited" /\ p.exit = 1)

C2_Witness ==
  /\ m.pc = "exited" /\ p.pc = "exited"
  /\ m.res # <<>> /\ m.res[1].StatusCode = 201 /\ p.res = m.res
  /\ Len(m.res[1].Body) = 1 /\ m.res[1].Body[1].kind = "object"
  /\ Len(m.res[1].Body[1].choices) = 1

\* C3: a body that deserializes to a response without choices makes the run
\* fail with the "no choices" error; no text is returned or printed.
C3_EmptyChoicesFail ==
  /\ (m.chatRes # <<>> /\ Len(m.chatRes[1].Choices) = 0) =>
       /\ m.pc = "returned" =>
            m.ret[1] = [text |-> <<>>, err |-> <<"No choices returned from llama">>]
       /\ m.pc = "exited" => (m.exit = 1 /\ NoTextPrinted(m))
  /\ (p.chatRes # <<>> /\ Len(p.chatRes[1].Choices) = 0) =>
       /\ p.pc # "returned"
       /\ p.pc = "exited" =>
            /\ p.exit = 1 /\ NoTextPrinted(p)
            /\ p.log = <<"No choices returned from llama">>

C3_Witness ==
  /\ m.pc = "exited" /\ p.pc = "exited"
  /\ m.chatRes # <<>> /\ Len(m.chatRes[1].Choices) = 0
  /\ p.chatRes # <<>> /\ Len(p.chatRes[1].Choices) = 0
  /\ firstValue(env.res[1]).kind = "object_null"

\* The key is set, the call answers 200, the body is read and deserializes to
\* a response with at least one choice.
C4_Pre ==
  /\ LibsFine /\ env.apiKey # <<>> /\ env.res # <<>>
  /\ env.res[1].StatusCode = 200
  /\ env.res[1].readErrAt = NoErr
  /\ Unmarshal(env.res[1].Body).err = <<>>
  /\ Len(Unmarshal(env.res[1].Body).chatRes.Choices) >= 1

\* C4: in that case getGeneratedResponse of main.go returns a nil error and
\* the content of the first choice as the body carries it, however many
\* choices follow.
C4_FirstChoiceContent ==
  (C4_Pre /\ Finished(m)) =>
    /\ m.ret[1].err = <<>>
    /\ m.ret[1].text = m.chatRes[1].Choices[1].Message.Content
    /\ m.ret[1].text = Unquote(firstValue(env.res[1]).choices[1].content)

C4_Witness ==
  /\ C4_Pre /\ m.pc = "exited" /\ m.exit = 0
  /\ Len(m.chatRes[1].Choices) = 2
  /\ m.ret[1].text = <<"Reckon", NL, "so">>

\* The request the claim describes, but for its descriptions.
C5_Shape(r, pr) ==
  /\ r.Model = Str("llama3-70b")
  /\ r.Messages = << [Role |-> Str("user"), Content |-> pr] >>
  /\ Len(r.Functions) = 1
  /\ r.Functions[1].Name = Str("Get_English_Exmple_Sentence")
  /\ r.Functions[1].Required = << Str("words") >>
  /\ r.Stream = FALSE
  /\ r.FunctionCall = Str("none")
  /\ [r EXCEPT !.Messages[1].Content = <<>>]
       = [createChatRequest(mainPrompt) EXCEPT !.Messages[1].Content = <<>>]

C5_Run(s) ==
  /\ s.chatReq # <<>> => C5_Shape(s.chatReq[1], prompt)
  /\ \A i \in 1..Len(s.sent) :
       /\ s.sent[i].Method = "POST" /\ s.sent[i].URL = API_URL
       /\ s.sent[i].Body = Marshal(s.chatReq[1])
       /\ s.sent[i].Body[1] = <<"model", Quote(Str("llama3-70b"))>>
       /\ s.sent[i].Body[2] =
            <<"messages", << << <<"role", Quote(Str("user"))>>,
                              <<"content", Quote(prompt)>> >> >> >>
       /\ s.sent[i].Body[4] = <<"stream", FALSE>>
       /\ s.sent[i].Body[5] = <<"function_call", Quote(Str("none"))>>

\* C5: for every prompt the request built has the fixed model, one user
\* message carrying the prompt, one function declaration, stream = false and
\* function_call = "none"; only the content depends on the prompt; and the
\* body posted is the serialization of that request.
C5_RequestShape == C5_Run(m) /\ C5_Run(p)

C5_Witness ==
  /\ Len(m.sent) = 1 /\ Len(p.sent) = 1
  /\ prompt = <<DQ, LT>>
  /\ m.sent[1].Body[2][2][1][2][2] = <<DQ, "\\\"", "\\u003c", DQ>>

\* The first failure an environment holds for main.go, in the order of the
\* checks of getGeneratedResponse, as the message logged for it.
FirstFailure ==
  IF env.marshalFails THEN "Failed to Marshal"
  ELSE IF env.newRequestFails THEN "Failed to create http request struct"
  ELSE IF env.apiKey = <<>> THEN "Failed to get API KEY"
  ELSE IF env.res = <<>> THEN "Failed to get http response"
  ELSE IF env.res[1].StatusCode # 200 THEN "Failed to get expected status code"
  ELSE IF env.res[1].readErrAt # NoErr THEN "Failed to read body"
  ELSE IF Unmarshal(env.res[1].Body).err # <<>> THEN "Failed to unmarshal"
  ELSE IF Len(Unmarshal(env.res[1].Body).chatRes.Choices) = 0
       THEN "Failed to get expected length of choices"
  ELSE "none"

\* Position of a failure in the order of the checks.
StepOf(msg) ==
  CASE msg = "Failed to Marshal" -> 1
    [] msg = "Failed to create http request struct" -> 2
    [] msg = "Failed to get API KEY" -> 3
    [] msg = "Failed to get http response" -> 4
    [] msg = "Failed to get expected status code" -> 5
    [] msg = "Failed to read body" -> 6
    [] msg = "Failed to unmarshal" -> 7
    [] msg = "Failed to get expected length of choices" -> 8
    [] OTHER -> 9

\* Nothing that comes after step k has left a trace in the run.
NothingAfter(s, k) ==
  /\ k <= 1 => s.jsonData = <<>>
  /\ k <= 2 => s.req = <<>>
  /\ k <= 3 => (Len(s.sent) = 0 /\ (s.req # <<>> => s.req[1].Header = {}))
  /\ k <= 4 => s.res = <<>>
  /\ k <= 5 => (~s.bodyRead /\ ~s.deferred)
  /\ k <= 6 => (s.body = <<>> /\ ~s.decoded)
  /\ k <= 7 => s.chatRes = <<>>
  /\ k <= 8 => (s.ret # <<>> => s.ret[1].text = <<>>)

\* C6: whichever of the eight failures occurs, main.go logs its cause, runs
\* no later step, prints no generated text and exits with status 1.
C6_FailureAborts ==
  /\ m.log # <<>> =>
       /\ Finished(m) /\ Failed(m) /\ NoTextPrinted(m)
       /\ StepOf(m.log[1]) <= 8
       /\ NothingAfter(m, StepOf(m.log[1]))
  /\ (FirstFailure # "none" /\ m.pc = "exited") =>
       /\ m.exit = 1 /\ NoTextPrinted(m)
       /\ Len(m.log) = 2
       /\ m.log[2] = "Failed to get generated response from Llama API"

C6_Witness ==
  /\ m.pc = "exited" /\ m.exit = 1
  /\ m.log = <<"Failed to read body", "Failed to get generated response from Llama API">>
  /\ Len(env.res[1].Body) = 2

\* C7: no run hands more than one request to client.Do.
C7_AtMostOneRequest == Len(m.sent) <= 1 /\ Len(p.sent) <= 1

C7_Witness ==
  /\ env.res = <<>> /\ m.pc = "exited" /\ p.pc = "exited"
  /\ Len(m.sent) = 1 /\ Len(p.sent) = 1
  /\ m.exit = 1 /\ p.exit = 1

\* C8: getGeneratedResponse of main.go reports the failure that comes first
\* in the order of its checks, and no later step has run.
C8_FirstErrorWins ==
  Finished(m) =>
    IF FirstFailure = "none"
    THEN m.log = <<>> /\ m.ret[1].err = <<>>
    ELSE /\ m.log[1] = FirstFailure
         /\ m.ret[1].err # <<>>
         /\ m.ret[1].text = <<>>
         /\ NothingAfter(m, StepOf(FirstFailure))
         /\ FirstFailure = "Failed to get API KEY" =>
              m.ret[1].err = <<"LLAMA_API_KEY environment variable is not set">>
         /\ FirstFailure = "Failed to get expected status code" =>
              m.ret[1].err = <<"Unexpected status code">>
         /\ FirstFailure = "Failed to get expected length of choices" =>
              m.ret[1].err = <<"No choices returned from llama">>

C8_Witness ==
  /\ m.pc = "returned" /\ LibsFine /\ env.apiKey # <<>>
  /\ m.log = <<"Failed to read body">>
  /\ env.res[1].readErrAt = 1
  /\ Unmarshal(env.res[1].Body).err # <<>>

\* C9: whenever client.Do has yielded a response, the body is closed by the
\* time getGeneratedResponse returns.
C9_BodyClosedOnReturn ==
  /\ (m.pc = "returned" /\ m.res # <<>>) => m.closed
  /\ (p.pc = "returned" /\ p.res # <<>>) => p.closed

\* C10 as claimed: the two versions end alike in every environment: the same
\* exit status, the same standard output, the same number of requests.
C10_Equivalent ==
  (m.pc = "exited" /\ p.pc = "exited") =>
    /\ m.exit = p.exit
    /\ m.stdout = p.stdout
    /\ Len(m.sent) = Len(p.sent)

\* Nothing but white space follows the first JSON value of the body, and the
\* body is read to its end without error.
CleanBody ==
  env.res # <<>> =>
    /\ env.res[1].readErrAt = NoErr
    /\ \A j \in (firstNonSpace(env.res[1].Body) + 1)..Len(env.res[1].Body) :
         isSpace(env.res[1].Body[j])

\* C10 amended: the two versions send the same number of requests; they end
\* alike whenever the body is clean; whenever main.go prints text, part_001
\* prints the same text; and runs that end with the same status have printed
\* the same.
C10_EquivalentOnCleanBody ==
  (m.pc = "exited" /\ p.pc = "exited") =>
    /\ Len(m.sent) = Len(p.sent)
    /\ CleanBody => m.exit = p.exit
    /\ m.exit = 0 => p.exit = 0
    /\ m.exit = p.exit => m.stdout = p.stdout

C10_Witness ==
  /\ m.pc = "exited" /\ p.pc = "exited"
  /\ m.exit = 0 /\ p.exit = 0
  /\ env.res[1].Body[1].kind = "ws"
  /\ Len(m.stdout) = 10 /\ m.stdout = p.stdout
  /\ m.stdout[8] = <<"Reckon", NL, "so">>

====
